---- MODULE Spec2Model ----
(***************************************************************************)
(* Model of sequelizeTransactionalMethodGenerator (src/main.js): the       *)
(* construction of a transactional method and the invocations of the       *)
(* generated async function, one action per run between two awaits.        *)
(* The database handle, the transactions, the handler and the error        *)
(* handler are collaborators: their outcomes are nondeterministic.         *)
(***************************************************************************)
EXTENDS Naturals, Sequences, FiniteSets, TLC

(* ------------------------------ bounds --------------------------------- *)

\* Longest argument list a caller passes to the generated method.
MaxArgs == 3

\* Number of invocations of the generated method the model holds.
NumCalls == 2

Calls == 1..NumCalls

(* --------------------------- JavaScript values ------------------------- *)

\* A value: its typeof, its constructor.name, an identity and (errors) a message.
Val(t, c, i, m) == [type |-> t, ctor |-> c, id |-> i, msg |-> m]

Undefined == Val("undefined", "", 0, "")
Null == Val("null", "", 0, "")
Num(n) == Val("number", "Number", n, "")
Str(s) == Val("string", "String", 0, s)
Fn(i) == Val("function", "Function", i, "")
Db(i) == Val("object", "Sequelize", i, "")
Tx(i) == Val("object", "Transaction", i, "")
Err(m) == Val("object", "Error", 0, m)

\* v instanceof Object / v instanceof Function
InstanceOfObject(v) == v.type \in {"object", "function"}
InstanceOfFunction(v) == v.type = "function"

\* JavaScript truthiness of the values the model holds.
Truthy(v) == ~(v.type \in {"undefined", "null"} \/ v = Num(0) \/ v = Str(""))

isSequelize(v) == InstanceOfObject(v) /\ v.ctor = "Sequelize"

isTransaction(v) == InstanceOfObject(v) /\ v.ctor = "Transaction"

\* Array.prototype.find: the element at the first of the matching indices, or undefined.
Find(ps, hits) ==
  IF hits = {} THEN Undefined
  ELSE ps[CHOOSE i \in hits : \A j \in hits : i <= j]

\* params.find(isSequelize) and params.find(isTransaction)
FindSequelize(ps) == Find(ps, {i \in 1..Len(ps) : isSequelize(ps[i])})
FindTransaction(ps) == Find(ps, {i \in 1..Len(ps) : isTransaction(ps[i])})

\* params[0]: undefined for an empty list.
First(ps) == IF Len(ps) > 0 THEN ps[1] ELSE Undefined

(* ------------------------------ inputs --------------------------------- *)

\* The transaction db.transaction() resolves with in invocation c: a new object.
LocalTx(c) == Tx(10 + c)

SuppliedTxs == {Tx(1), Tx(2)}
Txs == SuppliedTxs \cup {LocalTx(c) : c \in Calls}

\* What a caller may pass to the generated method.
ArgVals == {Db(1), Db(2), Undefined, Num(42)} \cup SuppliedTxs

RECURSIVE SeqsUpTo(_, _)
SeqsUpTo(S, n) ==
  IF n = 0 THEN {<<>>}
  ELSE LET shorter == SeqsUpTo(S, n - 1)
       IN shorter \cup {Append(s, x) : s \in {t \in shorter : Len(t) = n - 1}, x \in S}

ArgLists == SeqsUpTo(ArgVals, MaxArgs)

\* What a caller may pass to the generator as handler and as errorHandler.
HandlerVals == {Fn(1), Undefined, Null, Num(42)}
ErrorHandlerVals == {Fn(2), Undefined, Null, Num(0)}

\* What the handler and the error handler may resolve with, and reject with.
Results == {Str("ok"), Undefined}
HandlerErrors == {Err("x"), Err("y")}
ErrorHandlerResults == {Str("recovered")}
ErrorHandlerErrors == {Err("from error handler")}
CreateError == Err("transaction creation failed")
CommitError == Err("commit failed")
RollbackError == Err("rollback failed")

(* ------------------------------- state --------------------------------- *)

VARIABLES
  wrapState,          \* "none", "built" (a method was returned) or "failed" (the generator threw)
  wrapArgs,           \* the <<handler, errorHandler>> the generator was called with
  wrapError,          \* what the generator threw
  handler,            \* the handler captured by the generated method
  errorHandler,       \* the errorHandler captured by the generated method
  live,               \* the invocations the caller makes
  pc,                 \* per invocation: where the async function stands
  params,             \* per invocation: the argument list
  db,                 \* per invocation: params.find(isSequelize)
  transaction,        \* per invocation: params.find(isTransaction)
  handlerTransaction, \* per invocation: transaction || await db.transaction()
  handlerRes,         \* per invocation: what the handler resolved with
  caught,             \* per invocation: the e of the catch block
  outcome,            \* per invocation: the promise the caller holds
  finished,           \* per transaction: its finished flag ("none" while active)
  log,                \* per invocation: the calls the wrapper made on its collaborators
  replies             \* per invocation: how those calls settled

vars == <<wrapState, wrapArgs, wrapError, handler, errorHandler, live, pc, params, db,
          transaction, handlerTransaction, handlerRes, caught, outcome, finished, log,
          replies>>

closure == <<wrapState, wrapArgs, wrapError, handler, errorHandler, live>>

Pending == [state |-> "pending", value |-> Undefined]
Resolved(v) == [state |-> "resolved", value |-> v]
Rejected(e) == [state |-> "rejected", value |-> e]

\* One call of the wrapper on a collaborator.
Event(op, tx, args) == [op |-> op, tx |-> tx, args |-> args]

\* The settlement of one such call: resolved with a value or rejected with an error.
\* fin is the finished flag of the transaction in use at that moment.
Reply(op, state, value, fin) == [op |-> op, state |-> state, value |-> value, fin |-> fin]

InitWith(callers) ==
  /\ wrapState = "none"
  /\ wrapArgs = <<>>
  /\ wrapError = Undefined
  /\ handler = Undefined
  /\ errorHandler = Undefined
  /\ live = callers
  /\ pc = [c \in Calls |-> "idle"]
  /\ params = [c \in Calls |-> <<>>]
  /\ db = [c \in Calls |-> Undefined]
  /\ transaction = [c \in Calls |-> Undefined]
  /\ handlerTransaction = [c \in Calls |-> Undefined]
  /\ handlerRes = [c \in Calls |-> Undefined]
  /\ caught = [c \in Calls |-> Undefined]
  /\ outcome = [c \in Calls |-> Pending]
  /\ finished = [t \in Txs |-> "none"]
  /\ log = [c \in Calls |-> <<>>]
  /\ replies = [c \in Calls |-> <<>>]

\* One invocation of the generated method.
Init == InitWith({1})

(* ---------------------------- construction ----------------------------- *)

\* Mutant: the error handler is checked only when it is truthy.
WrapCheck_Truthy(h, eh) ==
  IF ~InstanceOfFunction(h)
    THEN Err("Expected handler to be a function")
  ELSE IF Truthy(eh) /\ ~InstanceOfFunction(eh)
    THEN Err("Expected the error handler to be a function")
  ELSE Undefined

\* The generator's two argument checks: the error it throws, or Undefined.
WrapCheck(h, eh) ==
  IF ~InstanceOfFunction(h)
    THEN Err("Expected handler to be a function")
  ELSE IF eh.type # "undefined" /\ ~InstanceOfFunction(eh)
    THEN Err("Expected the error handler to be a function")
  ELSE Undefined

\* sequelizeTransactionalMethodGenerator(h, eh)
Wrap(h, eh) ==
  /\ wrapState = "none"
  /\ wrapArgs' = <<h, eh>>
  /\ IF WrapCheck(h, eh) # Undefined
       THEN /\ wrapState' = "failed"
            /\ wrapError' = WrapCheck(h, eh)
            /\ UNCHANGED <<handler, errorHandler>>
       ELSE /\ wrapState' = "built"
            /\ handler' = h
            /\ errorHandler' = eh
            /\ UNCHANGED wrapError
  /\ UNCHANGED <<live, pc, params, db, transaction, handlerTransaction,
                 handlerRes, caught, outcome, finished, log, replies>>

(* ----------------------------- invocation ------------------------------ *)

\* Mutant: only a missing database is refused, wherever it stands.
InvalidCall_OnlyMissing(ps, d) == ~Truthy(d)

\* The guard of the generated method: no database found, or not in first place.
InvalidCall(ps, d) == ~Truthy(d) \/ First(ps) # d

InvalidCallError == Err("Expected the first parameter to be a Sequelize instance")

\* Mutant: every database and every transaction is dropped, not only the two in use.
HandlerParams_ByKind(ps, d, ht) ==
  SelectSeq(ps, LAMBDA p : ~isSequelize(p) /\ ~isTransaction(p))

\* The parameters passed on to the handler: all but the database and the transaction used.
HandlerParams(ps, d, ht) == SelectSeq(ps, LAMBDA p : p # d /\ p # ht)

\* The handler's whole argument list.
HandlerArgs(ps, d, ht) == <<d, ht>> \o HandlerParams(ps, d, ht)

\* Mutant: the transaction in use is passed as the original transaction too.
ErrorHandlerArgs_SameTx(e, d, ht, t) == <<e, d, ht, ht>>

\* The error handler's whole argument list.
ErrorHandlerArgs(e, d, ht, t) == <<e, d, ht, t>>

\* Mutant: the test on the supplied transaction inverted.
ShouldCommit_Inverted(t, fin) == Truthy(t) /\ fin = "none"

\* Mutant: the finished flag is not read.
ShouldCommit_IgnoresFinished(t, fin) == ~Truthy(t)

\* After the handler resolved: whether the wrapper commits.
ShouldCommit(t, fin) == ~Truthy(t) /\ fin = "none"

\* Mutant: rollback whoever made the transaction.
ShouldRollback_Always(t) == TRUE

\* Mutant: rollback only a supplied transaction.
ShouldRollback_Inverted(t) == Truthy(t)

\* In the catch block without an error handler: whether the wrapper rolls back.
ShouldRollback(t) == ~Truthy(t)

\* Mutant: the error handler is never consulted.
UsesErrorHandler_Never(eh) == FALSE

\* In the catch block: whether the error goes to the error handler.
UsesErrorHandler(eh) == Truthy(eh)

\* The flag of a transaction after an operation ended it (a finished one keeps its flag).
Finish(fin, how) == IF fin = "none" THEN how ELSE fin

Logged(c, e) == [log EXCEPT ![c] = Append(@, e)]

Replied(c, op, state, value, fin) ==
  [replies EXCEPT ![c] = Append(@, Reply(op, state, value, fin))]

\* Mutant: handlerTransaction is one variable of the generator's closure, shared
\* by all invocations.
CallHandler_Shared(c, ps, d, ht) ==
  /\ handlerTransaction' = [x \in Calls |-> ht]
  /\ log' = Logged(c, Event("handler", ht, HandlerArgs(ps, d, ht)))
  /\ pc' = [pc EXCEPT ![c] = "handler"]

\* await handler(db, handlerTransaction, ...handlerParams), entered with transaction ht.
CallHandler(c, ps, d, ht) ==
  /\ handlerTransaction' = [handlerTransaction EXCEPT ![c] = ht]
  /\ log' = Logged(c, Event("handler", ht, HandlerArgs(ps, d, ht)))
  /\ pc' = [pc EXCEPT ![c] = "handler"]

\* The generated method is called with ps: it runs up to its first await.
Invoke(c, ps) ==
  /\ wrapState = "built"
  /\ c \in live
  /\ pc[c] = "idle"
  /\ LET d == FindSequelize(ps)
         t == FindTransaction(ps)
     IN /\ params' = [params EXCEPT ![c] = ps]
        /\ db' = [db EXCEPT ![c] = d]
        /\ transaction' = [transaction EXCEPT ![c] = t]
        /\ IF InvalidCall(ps, d)
             THEN /\ pc' = [pc EXCEPT ![c] = "done"]
                  /\ outcome' = [outcome EXCEPT ![c] = Rejected(InvalidCallError)]
                  /\ UNCHANGED <<handlerTransaction, log>>
             ELSE IF Truthy(t)
               THEN /\ CallHandler(c, ps, d, t)
                    /\ UNCHANGED outcome
               ELSE /\ log' = Logged(c, Event("transaction", Undefined, <<d>>))
                    /\ pc' = [pc EXCEPT ![c] = "transaction"]
                    /\ UNCHANGED <<handlerTransaction, outcome>>
  /\ UNCHANGED <<closure, handlerRes, caught, finished, replies>>

\* db.transaction() resolves: the handler is called with the new transaction.
TransactionResolves(c) ==
  /\ pc[c] = "transaction"
  /\ CallHandler(c, params[c], db[c], LocalTx(c))
  /\ replies' = Replied(c, "transaction", "resolved", LocalTx(c),
                         finished[LocalTx(c)])
  /\ UNCHANGED <<closure, params, db, transaction, handlerRes, caught, outcome, finished>>

\* Mutant: db.transaction() is awaited inside the try block, its rejection is caught.
TransactionRejects_Caught(c) ==
  /\ pc[c] = "transaction"
  /\ caught' = [caught EXCEPT ![c] = CreateError]
  /\ IF Truthy(errorHandler)
       THEN /\ log' = Logged(c, Event("errorHandler", Undefined,
                        <<CreateError, db[c], Undefined, transaction[c]>>))
            /\ pc' = [pc EXCEPT ![c] = "errorHandler"]
            /\ UNCHANGED outcome
       ELSE /\ pc' = [pc EXCEPT ![c] = "done"]
            /\ outcome' = [outcome EXCEPT ![c] = Rejected(CreateError)]
            /\ log' = Logged(c, Event("rollback", Undefined, <<>>))
  /\ replies' = Replied(c, "transaction", "rejected", CreateError,
                         "none")
  /\ UNCHANGED <<closure, params, db, transaction, handlerTransaction, handlerRes,
                 finished>>

\* db.transaction() rejects: outside the try block, the rejection leaves the method.
TransactionRejects(c) ==
  /\ pc[c] = "transaction"
  /\ pc' = [pc EXCEPT ![c] = "done"]
  /\ outcome' = [outcome EXCEPT ![c] = Rejected(CreateError)]
  /\ replies' = Replied(c, "transaction", "rejected", CreateError,
                         "none")
  /\ UNCHANGED <<closure, params, db, transaction, handlerTransaction, handlerRes,
                 caught, finished, log>>

\* Mutant: without error handler, rollback only a transaction not yet finished.
CatchBlock_ChecksFinished(c, e) ==
  /\ caught' = [caught EXCEPT ![c] = e]
  /\ IF UsesErrorHandler(errorHandler)
       THEN /\ log' = Logged(c, Event("errorHandler", handlerTransaction[c],
                        ErrorHandlerArgs(e, db[c], handlerTransaction[c], transaction[c])))
            /\ pc' = [pc EXCEPT ![c] = "errorHandler"]
            /\ UNCHANGED outcome
       ELSE IF ShouldRollback(transaction[c]) /\ finished[handlerTransaction[c]] = "none"
         THEN /\ log' = Logged(c, Event("rollback", handlerTransaction[c], <<>>))
              /\ pc' = [pc EXCEPT ![c] = "rollback"]
              /\ UNCHANGED outcome
         ELSE /\ pc' = [pc EXCEPT ![c] = "done"]
              /\ outcome' = [outcome EXCEPT ![c] = Rejected(e)]
              /\ UNCHANGED log

\* The catch block, entered with error e.
CatchBlock(c, e) ==
  /\ caught' = [caught EXCEPT ![c] = e]
  /\ IF UsesErrorHandler(errorHandler)
       THEN /\ log' = Logged(c, Event("errorHandler", handlerTransaction[c],
                        ErrorHandlerArgs(e, db[c], handlerTransaction[c], transaction[c])))
            /\ pc' = [pc EXCEPT ![c] = "errorHandler"]
            /\ UNCHANGED outcome
       ELSE IF ShouldRollback(transaction[c])
         THEN /\ log' = Logged(c, Event("rollback", handlerTransaction[c], <<>>))
              /\ pc' = [pc EXCEPT ![c] = "rollback"]
              /\ UNCHANGED outcome
         ELSE /\ pc' = [pc EXCEPT ![c] = "done"]
              /\ outcome' = [outcome EXCEPT ![c] = Rejected(e)]
              /\ UNCHANGED log

\* The handler commits or rolls back the transaction it was given.
HandlerFinishes(c, how) ==
  /\ pc[c] = "handler"
  /\ finished[handlerTransaction[c]] = "none"
  /\ finished' = [finished EXCEPT ![handlerTransaction[c]] = how]
  /\ UNCHANGED <<closure, pc, params, db, transaction, handlerTransaction, handlerRes,
                 caught, outcome, log, replies>>

\* The handler resolves with v: commit if the transaction is the wrapper's and still active.
HandlerResolves(c, v) ==
  /\ pc[c] = "handler"
  /\ handlerRes' = [handlerRes EXCEPT ![c] = v]
  /\ IF ShouldCommit(transaction[c], finished[handlerTransaction[c]])
       THEN /\ log' = Logged(c, Event("commit", handlerTransaction[c], <<>>))
            /\ pc' = [pc EXCEPT ![c] = "commit"]
            /\ UNCHANGED outcome
       ELSE /\ pc' = [pc EXCEPT ![c] = "done"]
            /\ outcome' = [outcome EXCEPT ![c] = Resolved(v)]
            /\ UNCHANGED log
  /\ replies' = Replied(c, "handler", "resolved", v,
                         finished[handlerTransaction[c]])
  /\ UNCHANGED <<closure, params, db, transaction, handlerTransaction, caught, finished>>

\* The handler throws or rejects with e.
HandlerRejects(c, e) ==
  /\ pc[c] = "handler"
  /\ CatchBlock(c, e)
  /\ replies' = Replied(c, "handler", "rejected", e,
                         finished[handlerTransaction[c]])
  /\ UNCHANGED <<closure, params, db, transaction, handlerTransaction, handlerRes, finished>>

\* Mutant: the rollback is in a finally block, made after a commit that succeeded too.
CommitResolves_ThenRollback(c) ==
  /\ pc[c] = "commit"
  /\ finished' = [finished EXCEPT ![handlerTransaction[c]] = Finish(@, "commit")]
  /\ pc' = [pc EXCEPT ![c] = "rollback"]
  /\ log' = Logged(c, Event("rollback", handlerTransaction[c], <<>>))
  /\ replies' = Replied(c, "commit", "resolved", Undefined,
                         finished'[handlerTransaction[c]])
  /\ UNCHANGED <<closure, params, db, transaction, handlerTransaction, handlerRes,
                 caught, outcome>>

\* handlerTransaction.commit() resolves: return handlerRes.
CommitResolves(c) ==
  /\ pc[c] = "commit"
  /\ finished' = [finished EXCEPT ![handlerTransaction[c]] = Finish(@, "commit")]
  /\ pc' = [pc EXCEPT ![c] = "done"]
  /\ outcome' = [outcome EXCEPT ![c] = Resolved(handlerRes[c])]
  /\ replies' = Replied(c, "commit", "resolved", Undefined,
                         finished'[handlerTransaction[c]])
  /\ UNCHANGED <<closure, params, db, transaction, handlerTransaction, handlerRes,
                 caught, log>>

\* Mutant: the commit is awaited outside the try block, its rejection leaves the method.
CommitRejects_Uncaught(c, ended) ==
  /\ pc[c] = "commit"
  /\ finished' = IF ended
                   THEN [finished EXCEPT ![handlerTransaction[c]] = Finish(@, "commit")]
                   ELSE finished
  /\ pc' = [pc EXCEPT ![c] = "done"]
  /\ outcome' = [outcome EXCEPT ![c] = Rejected(CommitError)]
  /\ replies' = Replied(c, "commit", "rejected", CommitError,
                         finished'[handlerTransaction[c]])
  /\ UNCHANGED <<closure, params, db, transaction, handlerTransaction, handlerRes,
                 caught, log>>

\* handlerTransaction.commit() rejects inside the try block (the transaction
\* may or may not count as finished afterwards).
CommitRejects(c, ended) ==
  /\ pc[c] = "commit"
  /\ finished' = IF ended
                   THEN [finished EXCEPT ![handlerTransaction[c]] = Finish(@, "commit")]
                   ELSE finished
  /\ CatchBlock(c, CommitError)
  /\ replies' = Replied(c, "commit", "rejected", CommitError,
                         finished'[handlerTransaction[c]])
  /\ UNCHANGED <<closure, params, db, transaction, handlerTransaction, handlerRes>>

\* handlerTransaction.rollback() resolves: throw e.
RollbackResolves(c) ==
  /\ pc[c] = "rollback"
  /\ finished' = [finished EXCEPT ![handlerTransaction[c]] = Finish(@, "rollback")]
  /\ pc' = [pc EXCEPT ![c] = "done"]
  /\ outcome' = [outcome EXCEPT ![c] = Rejected(caught[c])]
  /\ replies' = Replied(c, "rollback", "resolved", Undefined,
                         finished'[handlerTransaction[c]])
  /\ UNCHANGED <<closure, params, db, transaction, handlerTransaction, handlerRes,
                 caught, log>>

\* Mutant: the rollback's rejection is swallowed and the caught error is thrown.
RollbackRejects_Swallowed(c, ended) ==
  /\ pc[c] = "rollback"
  /\ finished' = IF ended
                   THEN [finished EXCEPT ![handlerTransaction[c]] = Finish(@, "rollback")]
                   ELSE finished
  /\ pc' = [pc EXCEPT ![c] = "done"]
  /\ outcome' = [outcome EXCEPT ![c] = Rejected(caught[c])]
  /\ replies' = Replied(c, "rollback", "rejected", RollbackError,
                         finished'[handlerTransaction[c]])
  /\ UNCHANGED <<closure, params, db, transaction, handlerTransaction, handlerRes,
                 caught, log>>

\* handlerTransaction.rollback() rejects inside the catch block.
RollbackRejects(c, ended) ==
  /\ pc[c] = "rollback"
  /\ finished' = IF ended
                   THEN [finished EXCEPT ![handlerTransaction[c]] = Finish(@, "rollback")]
                   ELSE finished
  /\ pc' = [pc EXCEPT ![c] = "done"]
  /\ outcome' = [outcome EXCEPT ![c] = Rejected(RollbackError)]
  /\ replies' = Replied(c, "rollback", "rejected", RollbackError,
                         finished'[handlerTransaction[c]])
  /\ UNCHANGED <<closure, params, db, transaction, handlerTransaction, handlerRes,
                 caught, log>>

\* The error handler commits or rolls back the transaction it was given.
ErrorHandlerFinishes(c, how) ==
  /\ pc[c] = "errorHandler"
  /\ finished[handlerTransaction[c]] = "none"
  /\ finished' = [finished EXCEPT ![handlerTransaction[c]] = how]
  /\ UNCHANGED <<closure, pc, params, db, transaction, handlerTransaction, handlerRes,
                 caught, outcome, log, replies>>

\* return await errorHandler(...): the error handler resolves with v.
ErrorHandlerResolves(c, v) ==
  /\ pc[c] = "errorHandler"
  /\ pc' = [pc EXCEPT ![c] = "done"]
  /\ outcome' = [outcome EXCEPT ![c] = Resolved(v)]
  /\ replies' = Replied(c, "errorHandler", "resolved", v,
                         finished[handlerTransaction[c]])
  /\ UNCHANGED <<closure, params, db, transaction, handlerTransaction, handlerRes,
                 caught, finished, log>>

\* return await errorHandler(...): the error handler throws or rejects with e.
ErrorHandlerRejects(c, e) ==
  /\ pc[c] = "errorHandler"
  /\ pc' = [pc EXCEPT ![c] = "done"]
  /\ outcome' = [outcome EXCEPT ![c] = Rejected(e)]
  /\ replies' = Replied(c, "errorHandler", "rejected", e,
                         finished[handlerTransaction[c]])
  /\ UNCHANGED <<closure, params, db, transaction, handlerTransaction, handlerRes,
                 caught, finished, log>>

Next ==
  \/ \E h \in HandlerVals, eh \in ErrorHandlerVals : Wrap(h, eh)
  \/ \E c \in Calls, ps \in ArgLists : Invoke(c, ps)
  \/ \E c \in Calls : TransactionResolves(c)
  \/ \E c \in Calls : TransactionRejects(c)
  \/ \E c \in Calls, how \in {"commit", "rollback"} : HandlerFinishes(c, how)
  \/ \E c \in Calls, v \in Results : HandlerResolves(c, v)
  \/ \E c \in Calls, e \in HandlerErrors : HandlerRejects(c, e)
  \/ \E c \in Calls : CommitResolves(c)
  \/ \E c \in Calls, ended \in BOOLEAN : CommitRejects(c, ended)
  \/ \E c \in Calls : RollbackResolves(c)
  \/ \E c \in Calls, ended \in BOOLEAN : RollbackRejects(c, ended)
  \/ \E c \in Calls, how \in {"commit", "rollback"} : ErrorHandlerFinishes(c, how)
  \/ \E c \in Calls, v \in ErrorHandlerResults : ErrorHandlerResolves(c, v)
  \/ \E c \in Calls, e \in ErrorHandlerErrors : ErrorHandlerRejects(c, e)

Spec == Init /\ [][Next]_vars

(* ------------------------ concurrent invocations ----------------------- *)

\* The argument lists of the concurrent callers: a database, no transaction.
ConcArgLists == {<<Db(1)>>, <<Db(1), Num(42)>>}

\* Every invocation is made, in any interleaving of their steps.
InitConc == InitWith(Calls)

NextConc ==
  \/ \E h \in {Fn(1)}, eh \in {Fn(2), Undefined} : Wrap(h, eh)
  \/ \E c \in Calls, ps \in ConcArgLists : Invoke(c, ps)
  \/ \E c \in Calls : TransactionResolves(c)
  \/ \E c \in Calls : TransactionRejects(c)
  \/ \E c \in Calls, how \in {"commit", "rollback"} : HandlerFinishes(c, how)
  \/ \E c \in Calls, v \in {Str("ok")} : HandlerResolves(c, v)
  \/ \E c \in Calls, e \in {Err("x")} : HandlerRejects(c, e)
  \/ \E c \in Calls : CommitResolves(c)
  \/ \E c \in Calls, ended \in BOOLEAN : CommitRejects(c, ended)
  \/ \E c \in Calls : RollbackResolves(c)
  \/ \E c \in Calls, ended \in BOOLEAN : RollbackRejects(c, ended)
  \/ \E c \in Calls, how \in {"commit", "rollback"} : ErrorHandlerFinishes(c, how)
  \/ \E c \in Calls, v \in ErrorHandlerResults : ErrorHandlerResolves(c, v)
  \/ \E c \in Calls, e \in ErrorHandlerErrors : ErrorHandlerRejects(c, e)

SpecConc == InitConc /\ [][NextConc]_vars

(* ------------------------- vocabulary of the claims -------------------- *)

\* How often the wrapper made the call op in invocation c.
Count(c, op) == Cardinality({i \in DOMAIN log[c] : log[c][i].op = op})

\* The call op of invocation c settled in the given way.
Got(c, op, state) ==
  \E i \in DOMAIN replies[c] : replies[c][i].op = op /\ replies[c][i].state = state

GotValue(c, op, state, value) ==
  \E i \in DOMAIN replies[c] :
    replies[c][i].op = op /\ replies[c][i].state = state /\ replies[c][i].value = value

\* The handler resolved with v and left its transaction active.
HandlerLeftActive(c, v) ==
  \E i \in DOMAIN replies[c] : replies[c][i] = Reply("handler", "resolved", v, "none")

\* The method was built without / with an error handler.
NoErrorHandler == wrapState = "built" /\ wrapArgs[2] = Undefined
WithErrorHandler == wrapState = "built" /\ wrapArgs[2] # Undefined

\* The caller's argument list: a database first, a transaction somewhere.
DbFirst(c) == Len(params[c]) > 0 /\ isSequelize(params[c][1])
SuppliedTx(c) == \E i \in DOMAIN params[c] : isTransaction(params[c][i])

\* Invocation c was made with a database and no transaction.
CalledWithoutTx(c) == pc[c] # "idle" /\ DbFirst(c) /\ ~SuppliedTx(c)

\* Invocation c was made with a database and a transaction.
CalledWithTx(c) == pc[c] # "idle" /\ DbFirst(c) /\ SuppliedTx(c)

(* -------------------------------- claims ------------------------------- *)

\* C1 as stated: without an error handler and without a transaction argument,
\* whenever the handler has succeeded and the call has settled, a transaction was
\* created exactly once and committed exactly once, nothing was rolled back and
\* the call resolved with the handler's value.
C1_AsClaimed ==
  \A c \in Calls, v \in Results :
    (NoErrorHandler /\ CalledWithoutTx(c) /\ pc[c] = "done"
       /\ GotValue(c, "handler", "resolved", v))
    => /\ Count(c, "transaction") = 1
       /\ Count(c, "commit") = 1
       /\ Count(c, "rollback") = 0
       /\ outcome[c] = Resolved(v)

\* C1 amended: without an error handler and without a transaction argument, once
\* the handler has succeeded leaving the transaction unfinished, a transaction was
\* created exactly once and commit was called exactly once; and if that commit
\* succeeded, the settled call made no rollback and resolved with the handler's
\* value unchanged.
C1_CommitOnSuccess ==
  \A c \in Calls, v \in Results :
    (NoErrorHandler /\ CalledWithoutTx(c) /\ HandlerLeftActive(c, v))
    => /\ Count(c, "transaction") = 1
       /\ Count(c, "commit") = 1
       /\ pc[c] # "commit" =>
            /\ Got(c, "commit", "resolved") \/ Got(c, "commit", "rejected")
            /\ Got(c, "commit", "resolved") =>
                 /\ pc[c] = "done"
                 /\ Count(c, "rollback") = 0
                 /\ outcome[c] = Resolved(v)

\* C1 witness: such a call has committed and resolved with "ok".
C1_Witness ==
  \E c \in Calls :
    /\ NoErrorHandler /\ CalledWithoutTx(c) /\ pc[c] = "done"
    /\ HandlerLeftActive(c, Str("ok"))
    /\ Got(c, "commit", "resolved")
    /\ outcome[c] = Resolved(Str("ok"))

\* C2 as stated: without an error handler and without a transaction argument,
\* whenever the handler has failed with e and the call has settled, a transaction
\* was created exactly once and rolled back exactly once, nothing was committed
\* and the call failed with exactly e.
C2_AsClaimed ==
  \A c \in Calls, e \in HandlerErrors :
    (NoErrorHandler /\ CalledWithoutTx(c) /\ pc[c] = "done"
       /\ GotValue(c, "handler", "rejected", e))
    => /\ Count(c, "transaction") = 1
       /\ Count(c, "rollback") = 1
       /\ Count(c, "commit") = 0
       /\ outcome[c] = Rejected(e)

\* C2 amended: without an error handler and without a transaction argument, once
\* the handler has failed with e, a transaction was created exactly once, rollback
\* was called exactly once and commit never; the settled call failed with exactly
\* e if the rollback succeeded, and with the rollback's error if it failed.
C2_RollbackOnFailure ==
  \A c \in Calls, e \in HandlerErrors :
    (NoErrorHandler /\ CalledWithoutTx(c) /\ GotValue(c, "handler", "rejected", e))
    => /\ Count(c, "transaction") = 1
       /\ Count(c, "rollback") = 1
       /\ Count(c, "commit") = 0
       /\ pc[c] \in {"rollback", "done"}
       /\ pc[c] = "done" =>
            /\ Got(c, "rollback", "resolved") => outcome[c] = Rejected(e)
            /\ Got(c, "rollback", "rejected") => outcome[c] = Rejected(RollbackError)
            /\ Got(c, "rollback", "resolved") \/ Got(c, "rollback", "rejected")

\* C2 witness: such a call has rolled back and failed with the handler's error.
C2_Witness ==
  \E c \in Calls :
    /\ NoErrorHandler /\ CalledWithoutTx(c) /\ pc[c] = "done"
    /\ GotValue(c, "handler", "rejected", Err("x"))
    /\ Got(c, "rollback", "resolved")
    /\ outcome[c] = Rejected(Err("x"))

\* C3: in an invocation given a transaction, the wrapper creates no transaction
\* and calls neither commit nor rollback, whatever the handler and the error
\* handler do; and without an error handler a failure of the handler settles the
\* call with the handler's error.
C3_SuppliedTxUntouched ==
  \A c \in Calls :
    CalledWithTx(c)
    => /\ Count(c, "transaction") = 0
       /\ Count(c, "commit") = 0
       /\ Count(c, "rollback") = 0
       /\ \A e \in HandlerErrors :
            (NoErrorHandler /\ GotValue(c, "handler", "rejected", e))
            => pc[c] = "done" /\ outcome[c] = Rejected(e)

\* C3 witness: a call given a transaction, without error handler, whose handler failed.
C3_Witness ==
  \E c \in Calls :
    /\ NoErrorHandler /\ CalledWithTx(c) /\ pc[c] = "done"
    /\ Got(c, "handler", "rejected")
    /\ finished[transaction[c]] = "none"

\* C4: with an error handler, once the handler has failed the wrapper rolls
\* nothing back (supplied or local transaction), the error handler is called, and
\* the settled call has the error handler's outcome: resolved with the value it
\* returned, or rejected with the error it threw.
C4_ErrorHandlerDecides ==
  \A c \in Calls :
    (WithErrorHandler /\ Got(c, "handler", "rejected"))
    => /\ Count(c, "rollback") = 0
       /\ Count(c, "errorHandler") = 1
       /\ pc[c] \in {"errorHandler", "done"}
       /\ pc[c] = "done" =>
            \/ \E v \in ErrorHandlerResults :
                 /\ GotValue(c, "errorHandler", "resolved", v)
                 /\ outcome[c] = Resolved(v)
            \/ \E e \in ErrorHandlerErrors :
                 /\ GotValue(c, "errorHandler", "rejected", e)
                 /\ outcome[c] = Rejected(e)

\* C4 witness: a local transaction, the handler failed, the error handler recovered.
C4_Witness ==
  \E c \in Calls :
    /\ WithErrorHandler /\ CalledWithoutTx(c) /\ pc[c] = "done"
    /\ Got(c, "handler", "rejected")
    /\ outcome[c] = Resolved(Str("recovered"))

\* The settled call has the outcome the error handler had.
OutcomeOfErrorHandler(c) ==
  \/ \E v \in ErrorHandlerResults :
       GotValue(c, "errorHandler", "resolved", v) /\ outcome[c] = Resolved(v)
  \/ \E e \in ErrorHandlerErrors :
       GotValue(c, "errorHandler", "rejected", e) /\ outcome[c] = Rejected(e)

\* The error handler was called in invocation c with error e as first argument.
ErrorHandlerGot(c, e) ==
  \E i \in DOMAIN log[c] : log[c][i].op = "errorHandler" /\ log[c][i].args[1] = e

\* C5 as stated: once the wrapper's commit has failed, the failure leaves the
\* call at once: the call is rejected with the commit's error, the error handler
\* is not called and nothing is rolled back.
C5_AsClaimed ==
  \A c \in Calls :
    (Got(c, "handler", "resolved") /\ Got(c, "commit", "rejected"))
    => /\ pc[c] = "done"
       /\ outcome[c] = Rejected(CommitError)
       /\ Count(c, "errorHandler") = 0
       /\ Count(c, "rollback") = 0

\* C5 amended: a failure of the wrapper's commit is caught like a failure of the
\* handler. With an error handler, it is called once with the commit's error,
\* nothing is rolled back and the settled call has the error handler's outcome.
\* Without one, rollback is called once on the local transaction and the settled
\* call is rejected with the commit's error, or with the rollback's if that failed.
C5_CommitFailureCaught ==
  \A c \in Calls :
    (Got(c, "handler", "resolved") /\ Got(c, "commit", "rejected"))
    => /\ Count(c, "commit") = 1
       /\ WithErrorHandler =>
            /\ Count(c, "errorHandler") = 1
            /\ ErrorHandlerGot(c, CommitError)
            /\ Count(c, "rollback") = 0
            /\ pc[c] \in {"errorHandler", "done"}
            /\ pc[c] = "done" => OutcomeOfErrorHandler(c)
       /\ NoErrorHandler =>
            /\ Count(c, "errorHandler") = 0
            /\ Count(c, "rollback") = 1
            /\ log[c][Len(log[c])] = Event("rollback", LocalTx(c), <<>>)
            /\ pc[c] \in {"rollback", "done"}
            /\ pc[c] = "done" =>
                 \/ Got(c, "rollback", "resolved") /\ outcome[c] = Rejected(CommitError)
                 \/ Got(c, "rollback", "rejected") /\ outcome[c] = Rejected(RollbackError)

\* C5 witness: without an error handler the commit failed, the rollback that
\* followed succeeded and the call was rejected with the commit's error.
C5_Witness ==
  \E c \in Calls :
    /\ NoErrorHandler /\ pc[c] = "done"
    /\ Got(c, "commit", "rejected") /\ Got(c, "rollback", "resolved")
    /\ outcome[c] = Rejected(CommitError)

\* The argument list of invocation c holds no database, or its first database
\* is not its first element.
NoDbOrNotFirst(c) ==
  LET ps == params[c]
      dbs == {i \in DOMAIN ps : isSequelize(ps[i])}
  IN dbs = {} \/ (\A i \in dbs : (\A j \in dbs : i <= j) => i # 1)

\* C6: an invocation whose argument list holds no database, or whose first
\* argument is not the database found, is rejected with the invalid-argument
\* error at once: no handler, no error handler, no transaction created, no
\* commit, no rollback.
C6_InvalidCallRejected ==
  \A c \in Calls :
    (pc[c] # "idle" /\ NoDbOrNotFirst(c))
    => /\ pc[c] = "done"
       /\ outcome[c] = Rejected(InvalidCallError)
       /\ log[c] = <<>>
       /\ replies[c] = <<>>
       /\ handlerTransaction[c] = Undefined

\* C6 witness: a call whose list holds a database, but not in first place.
C6_Witness ==
  \E c \in Calls :
    /\ params[c] = <<Num(42), Db(1)>>
    /\ outcome[c] = Rejected(InvalidCallError)

\* The transaction invocation c works with: the first one of the argument
\* list, or the one created for it.
WorkingTx(c) ==
  LET ps == params[c]
      txs == {i \in DOMAIN ps : isTransaction(ps[i])}
  IN IF txs = {} THEN LocalTx(c)
     ELSE ps[CHOOSE i \in txs : \A j \in txs : i <= j]

\* The elements of ps other than d and w, in their order.
RECURSIVE Remaining(_, _, _)
Remaining(ps, d, w) ==
  IF ps = <<>> THEN <<>>
  ELSE IF Head(ps) \in {d, w} THEN Remaining(Tail(ps), d, w)
  ELSE <<Head(ps)>> \o Remaining(Tail(ps), d, w)

\* C7: the handler is always called with the database, then the working
\* transaction (the first transaction of the argument list, or the local one),
\* then the arguments that are neither of the two, in their original order; and
\* it is called once as soon as the working transaction is known.
C7_HandlerArguments ==
  \A c \in Calls :
    /\ \A i \in DOMAIN log[c] :
         log[c][i].op = "handler"
         => LET a == log[c][i].args
            IN /\ DbFirst(c)
               /\ Len(a) >= 2
               /\ a[1] = params[c][1]
               /\ a[2] = WorkingTx(c)
               /\ SubSeq(a, 3, Len(a)) = Remaining(params[c], params[c][1], WorkingTx(c))
    /\ (CalledWithTx(c) \/ (CalledWithoutTx(c) /\ Got(c, "transaction", "resolved")))
       => Count(c, "handler") = 1

\* C7 witness: the transaction came after another argument and the handler was
\* called with (db, tx, 42).
C7_Witness ==
  \E c \in Calls :
    /\ params[c] = <<Db(1), Num(42), Tx(2)>>
    /\ \E i \in DOMAIN log[c] :
         log[c][i].op = "handler" /\ log[c][i].args = <<Db(1), Tx(2), Num(42)>>

\* C8: the error handler is always called with four arguments: the error caught,
\* the database, the working transaction, and the original transaction, which is
\* the supplied transaction (the same as the third argument) when one was
\* supplied and undefined exactly when the working transaction is the local one.
C8_ErrorHandlerArguments ==
  \A c \in Calls :
    \A i \in DOMAIN log[c] :
      log[c][i].op = "errorHandler"
      => LET a == log[c][i].args
         IN /\ Len(a) = 4
            /\ \/ GotValue(c, "handler", "rejected", a[1])
               \/ GotValue(c, "commit", "rejected", a[1])
            /\ a[2] = params[c][1]
            /\ a[3] = WorkingTx(c)
            /\ SuppliedTx(c) => (a[4] = a[3] /\ a[4] \in SuppliedTxs)
            /\ (a[4] = Undefined) <=> (a[3] = LocalTx(c))
            /\ (a[3] = LocalTx(c)) <=> ~SuppliedTx(c)

\* C8 witness: the error handler was called for a local transaction, without
\* original transaction.
C8_Witness ==
  \E c \in Calls :
    \E i \in DOMAIN log[c] :
      /\ log[c][i].op = "errorHandler"
      /\ log[c][i].args = <<Err("x"), Db(1), LocalTx(c), Undefined>>

C10_Construction ==
  wrapState # "none"
  => LET h == wrapArgs[1]
         eh == wrapArgs[2]
     IN /\ (wrapState = "failed")
             <=> (h.type # "function" \/ (eh # Undefined /\ eh.type # "function"))
        /\ wrapState = "failed" =>
             /\ wrapError.ctor = "Error"
             /\ handler = Undefined /\ errorHandler = Undefined
             /\ \A c \in Calls : pc[c] = "idle"
        /\ wrapState = "built" =>
             /\ wrapError = Undefined
             /\ handler = h /\ errorHandler = eh
        /\ (\A c \in Calls : pc[c] = "idle") =>
             /\ \A c \in Calls : log[c] = <<>> /\ replies[c] = <<>> /\ outcome[c] = Pending
             /\ \A t \in Txs : finished[t] = "none"

\* C10 witness: the generator refused a null errorHandler.
C10_Witness ==
  /\ wrapState = "failed"
  /\ wrapArgs = <<Fn(1), Null>>
  /\ wrapError = Err("Expected the error handler to be a function")

\* The place of a call in the order of one invocation.
Rank(op) ==
  CASE op = "transaction" -> 1
    [] op = "handler" -> 2
    [] op = "commit" -> 3
    [] op = "rollback" -> 4
    [] op = "errorHandler" -> 5

\* The calls of invocation c were made in rank order, each at most once.
InOrder(c) ==
  \A i, j \in DOMAIN log[c] : i < j => Rank(log[c][i].op) < Rank(log[c][j].op)

\* The parts of C11 that do not depend on which failure starts the failure path:
\* calls in rank order and at most once each; a transaction is created only when
\* none was supplied, and the handler is called only once it resolved; the handler
\* is called exactly once from then on; commit, rollback and the error handler
\* start only after the handler settled, commit only after it resolved.
StepOrder(c) ==
  /\ InOrder(c)
  /\ Count(c, "transaction") > 0 => ~SuppliedTx(c)
  /\ (Count(c, "handler") > 0 /\ ~SuppliedTx(c)) => Got(c, "transaction", "resolved")
  /\ pc[c] \in {"handler", "commit", "rollback", "errorHandler"} => Count(c, "handler") = 1
  /\ Count(c, "handler") <= 1
  /\ Count(c, "errorHandler") <= 1
  /\ (Count(c, "commit") > 0 \/ Count(c, "rollback") > 0 \/ Count(c, "errorHandler") > 0)
       => (Got(c, "handler", "resolved") \/ Got(c, "handler", "rejected"))
  /\ Count(c, "commit") > 0 => Got(c, "handler", "resolved")
  /\ pc[c] = "handler" => ~(Got(c, "handler", "resolved") \/ Got(c, "handler", "rejected"))

\* C11 as stated: the steps of an invocation come in the fixed order, and
\* rollback and the error handler are started only after a failure of the handler.
C11_AsClaimed ==
  \A c \in Calls :
    /\ StepOrder(c)
    /\ (Count(c, "rollback") > 0 \/ Count(c, "errorHandler") > 0)
         => Got(c, "handler", "rejected")

\* C11 amended: the steps of an invocation come in the fixed order, and rollback
\* and the error handler are started only after a failure of the handler or of
\* the wrapper's commit.
C11_StepOrder ==
  \A c \in Calls :
    /\ StepOrder(c)
    /\ (Count(c, "rollback") > 0 \/ Count(c, "errorHandler") > 0)
         => (Got(c, "handler", "rejected") \/ Got(c, "commit", "rejected"))

\* C11 witness: an invocation went through creation, handler and rollback.
C11_Witness ==
  \E c \in Calls :
    /\ pc[c] = "done"
    /\ Got(c, "handler", "rejected")
    /\ Len(log[c]) = 3
    /\ log[c][1].op = "transaction" /\ log[c][2].op = "handler" /\ log[c][3].op = "rollback"

\* C12: once db.transaction() has failed, the call is rejected with that failure
\* and nothing else was called: no handler, no error handler (even if one was
\* given), no commit, no rollback.
C12_CreationFailurePropagates ==
  \A c \in Calls :
    Got(c, "transaction", "rejected")
    => /\ pc[c] = "done"
       /\ outcome[c] = Rejected(CreateError)
       /\ Len(log[c]) = 1 /\ log[c][1].op = "transaction"
       /\ Count(c, "handler") = 0
       /\ Count(c, "errorHandler") = 0
       /\ Count(c, "commit") = 0
       /\ Count(c, "rollback") = 0

\* C12 witness: creation failed in a method that has an error handler.
C12_Witness ==
  \E c \in Calls :
    /\ WithErrorHandler
    /\ Got(c, "transaction", "rejected")
    /\ outcome[c] = Rejected(CreateError)

\* The handler of invocation c settled in the given way while its transaction
\* was already finished.
HandlerLeftFinished(c, state, value) ==
  \E i \in DOMAIN replies[c] :
    /\ replies[c][i].op = "handler" /\ replies[c][i].state = state
    /\ replies[c][i].value = value /\ replies[c][i].fin # "none"

\* C13: when the handler resolves with v and its local transaction is already
\* finished, the wrapper does not commit and the call resolves with v at once;
\* and every commit the wrapper makes is on the local transaction of an
\* invocation given none, whose handler left it active.
C13_CommitOnlyIfActive ==
  \A c \in Calls :
    /\ \A v \in Results :
         (CalledWithoutTx(c) /\ HandlerLeftFinished(c, "resolved", v))
         => /\ Count(c, "commit") = 0
            /\ Count(c, "rollback") = 0
            /\ pc[c] = "done"
            /\ outcome[c] = Resolved(v)
    /\ \A i \in DOMAIN log[c] :
         log[c][i].op = "commit"
         => /\ ~SuppliedTx(c)
            /\ log[c][i].tx = LocalTx(c)
            /\ \E v \in Results : HandlerLeftActive(c, v)

\* C13 witness: the handler rolled its local transaction back and resolved with
\* "ok"; the call resolved with "ok" and the transaction stays rolled back.
C13_Witness ==
  \E c \in Calls :
    /\ CalledWithoutTx(c) /\ pc[c] = "done"
    /\ HandlerLeftFinished(c, "resolved", Str("ok"))
    /\ finished[LocalTx(c)] = "rollback"
    /\ outcome[c] = Resolved(Str("ok"))

\* C14: without error handler and with a local transaction, once the handler has
\* failed and the wrapper's rollback has failed too, the call is rejected with
\* the rollback's error and nothing more was called: one rollback, no commit, no
\* error handler.
C14_RollbackFailurePropagates ==
  \A c \in Calls :
    (NoErrorHandler /\ CalledWithoutTx(c) /\ Got(c, "handler", "rejected")
       /\ Got(c, "rollback", "rejected"))
    => /\ pc[c] = "done"
       /\ outcome[c] = Rejected(RollbackError)
       /\ Count(c, "rollback") = 1
       /\ Count(c, "commit") = 0
       /\ Count(c, "errorHandler") = 0
       /\ log[c][Len(log[c])].op = "rollback"

\* C14 witness: the handler failed with "x", the rollback failed, the call was
\* rejected with the rollback's error.
C14_Witness ==
  \E c \in Calls :
    /\ NoErrorHandler /\ CalledWithoutTx(c)
    /\ GotValue(c, "handler", "rejected", Err("x"))
    /\ Got(c, "rollback", "rejected")
    /\ outcome[c] = Rejected(RollbackError)

\* C15: in any interleaving of invocations made without a transaction, each one
\* creates at most one transaction, its own; its handler receives that
\* transaction; the wrapper commits and rolls back, in an invocation, only the
\* transaction of that invocation; nobody finishes a transaction before its
\* invocation has it; and a transaction the wrapper committed for one invocation
\* stays committed whatever the other invocations do.
C15_OwnTransactionOnly ==
  \A c \in Calls :
    /\ Count(c, "transaction") <= 1
    /\ pc[c] \in {"idle", "transaction"} => finished[LocalTx(c)] = "none"
    /\ Got(c, "transaction", "rejected") => finished[LocalTx(c)] = "none"
    /\ pc[c] \in {"handler", "commit", "rollback", "errorHandler"}
         => handlerTransaction[c] = LocalTx(c)
    /\ \A i \in DOMAIN log[c] :
         /\ log[c][i].op \in {"commit", "rollback"} => log[c][i].tx = LocalTx(c)
         /\ log[c][i].op = "handler" => log[c][i].args[2] = LocalTx(c)
         /\ \A d \in Calls \ {c} : log[c][i].tx # LocalTx(d)
    /\ Got(c, "commit", "resolved") => finished[LocalTx(c)] = "commit"
    /\ (pc[c] = "done" /\ Got(c, "rollback", "resolved")
          /\ GotValue(c, "handler", "rejected", Err("x"))
          /\ ~HandlerLeftFinished(c, "rejected", Err("x"))
          /\ ~Got(c, "commit", "rejected"))
         => finished[LocalTx(c)] = "rollback"

\* C15 witness: two invocations in flight at once, the first rolling back after
\* its handler failed, the second committing after its handler succeeded.
C15_Witness ==
  /\ pc[1] = "rollback" /\ pc[2] = "commit"
  /\ log[1][Len(log[1])] = Event("rollback", LocalTx(1), <<>>)
  /\ log[2][Len(log[2])] = Event("commit", LocalTx(2), <<>>)

\* The flag the handler of invocation c left on its transaction when it settled.
HandlerLeft(c, fin) ==
  \E i \in DOMAIN replies[c] : replies[c][i].op = "handler" /\ replies[c][i].fin = fin

\* Invocation c, made without transaction and without error handler, has
\* settled after creation succeeded, the handler settled and no commit or
\* rollback failed.
SettledCleanly(c) ==
  /\ NoErrorHandler /\ CalledWithoutTx(c) /\ pc[c] = "done"
  /\ Got(c, "transaction", "resolved")
  /\ ~Got(c, "commit", "rejected") /\ ~Got(c, "rollback", "rejected")

\* C16 as stated: when such an invocation settles, its local transaction is
\* finished: committed if the call resolved, rolled back if it was rejected.
C16_AsClaimed ==
  \A c \in Calls :
    SettledCleanly(c)
    => /\ finished[LocalTx(c)] # "none"
       /\ outcome[c].state = "resolved" => finished[LocalTx(c)] = "commit"
       /\ outcome[c].state = "rejected" => finished[LocalTx(c)] = "rollback"

\* C16 amended: when such an invocation settles, its local transaction is
\* finished. If the handler left it active, it is committed when the call
\* resolved and rolled back when it was rejected; if the handler finished it
\* itself, it keeps the state the handler gave it.
C16_NoActiveTransactionLeft ==
  \A c \in Calls :
    SettledCleanly(c)
    => /\ finished[LocalTx(c)] # "none"
       /\ HandlerLeft(c, "none") =>
            /\ outcome[c].state = "resolved" => finished[LocalTx(c)] = "commit"
            /\ outcome[c].state = "rejected" => finished[LocalTx(c)] = "rollback"
       /\ \A f \in {"commit", "rollback"} : HandlerLeft(c, f) => finished[LocalTx(c)] = f

\* C16 witness: the handler failed on an active local transaction and the call
\* settled with the transaction rolled back.
C16_Witness ==
  \E c \in Calls :
    /\ SettledCleanly(c)
    /\ HandlerLeft(c, "none")
    /\ outcome[c] = Rejected(Err("x"))
    /\ finished[LocalTx(c)] = "rollback"

\* C17: once a commit made by the wrapper has succeeded, the call is resolved
\* with the handler's result, the commit is the last call the wrapper made, and
\* neither a rollback nor the error handler was called: no transaction is
\* committed and then rolled back by the wrapper.
C17_NothingAfterCommit ==
  \A c \in Calls :
    Got(c, "commit", "resolved")
    => /\ pc[c] = "done"
       /\ \E v \in Results : HandlerLeftActive(c, v) /\ outcome[c] = Resolved(v)
       /\ Count(c, "commit") = 1
       /\ Count(c, "rollback") = 0
       /\ Count(c, "errorHandler") = 0
       /\ log[c][Len(log[c])].op = "commit"

\* C17 witness: with an error handler given, the commit succeeded and the call
\* resolved with "ok".
C17_Witness ==
  \E c \in Calls :
    /\ WithErrorHandler
    /\ Got(c, "commit", "resolved")
    /\ outcome[c] = Resolved(Str("ok"))

====
